---- MODULE Spec2Model ----
(***************************************************************************)
(* Finance Visualizer (streamlitfin.py): the cleaning step load_and_clean  *)
(* and the month-scoped aggregation the script performs on every rerun.    *)
(*                                                                         *)
(* Texts are sequences of one-character strings.  Numbers are exact        *)
(* decimals held as integers in units of 10^-FracDigits (the code holds    *)
(* them as IEEE doubles; rounding of doubles is outside this model).       *)
(* pd.to_datetime is modelled on ISO "YYYY-MM-DD" texts; every other text  *)
(* of the model's input sets is one pandas cannot parse either.            *)
(***************************************************************************)
EXTENDS Integers, Sequences, FiniteSets, TLC

\* Longest Amount text enumerated exhaustively by SpecAmount.
MaxLen == 4
\* Most data rows in an uploaded CSV file.
MaxRows == 2

\* Amounts are integers in units of 10^-FracDigits.
FracDigits == MaxLen - 1

RECURSIVE Pow10(_)
Pow10(n) == IF n = 0 THEN 1 ELSE 10 * Pow10(n - 1)

----------------------------------------------------------------------------
\* Characters and texts

\* Printable ASCII in code-point order, from the space (32); the double quote,
\* the backslash and the backtick are held by name.
Ascii ==
  << " ", "!", "dquote", "#", "$", "%", "&", "'", "(", ")", "*", "+", ",", "-", ".", "/",
     "0", "1", "2", "3", "4", "5", "6", "7", "8", "9", ":", ";", "<", "=", ">", "?",
     "@", "A", "B", "C", "D", "E", "F", "G", "H", "I", "J", "K", "L", "M", "N", "O",
     "P", "Q", "R", "S", "T", "U", "V", "W", "X", "Y", "Z", "[", "backslash", "]", "^", "_",
     "backtick", "a", "b", "c", "d", "e", "f", "g", "h", "i", "j", "k", "l", "m", "n", "o",
     "p", "q", "r", "s", "t", "u", "v", "w", "x", "y", "z", "{", "|", "}", "~" >>

Chars == {Ascii[i] : i \in 1..Len(Ascii)}

\* ord(c)
Ord == [c \in Chars |-> 31 + (CHOOSE i \in 1..Len(Ascii) : Ascii[i] = c)]

Chr(n) == Ascii[n - 31]

IsDigit(c) == Ord[c] >= 48 /\ Ord[c] <= 57

DigitVal(c) == Ord[c] - 48

DigitChar(d) == Chr(48 + d)

\* str.lower() of one character
Lower(c) == IF Ord[c] >= 65 /\ Ord[c] <= 90 THEN Chr(Ord[c] + 32) ELSE c

LowerText(t) == [i \in 1..Len(t) |-> Lower(t[i])]

\* str < str of Python: lexicographic by code point.
RECURSIVE TextLess(_, _)
TextLess(a, b) ==
  IF b = <<>> THEN FALSE
  ELSE IF a = <<>> THEN TRUE
  ELSE IF Ord[Head(a)] # Ord[Head(b)] THEN Ord[Head(a)] < Ord[Head(b)]
  ELSE TextLess(Tail(a), Tail(b))

StartsWith(t, p) == Len(t) >= Len(p) /\ SubSeq(t, 1, Len(p)) = p

\* re.search(pat, t, re.IGNORECASE) for a pattern of plain letters
ContainsNoCase(t, pat) ==
  \E i \in 1..(Len(t) - Len(pat) + 1) :
     LowerText(SubSeq(t, i, i + Len(pat) - 1)) = LowerText(pat)

\* str.replace(old, "", regex=False): leftmost non-overlapping occurrences removed
RECURSIVE RemoveLiteral(_, _)
RemoveLiteral(t, old) ==
  IF t = <<>> THEN <<>>
  ELSE IF StartsWith(t, old) THEN RemoveLiteral(SubSeq(t, Len(old) + 1, Len(t)), old)
  ELSE <<Head(t)>> \o RemoveLiteral(Tail(t), old)

\* the characters the class [^\d\.-] does not match
IsNumChar(c) == IsDigit(c) \/ c = "." \/ c = "-"

\* Variant: the class [^\d], which drops "." and "-" too.
RemoveNonDigits(t) == SelectSeq(t, IsDigit)

\* str.replace(r"[^\d\.-]", "", regex=True)
RemoveNonNumeric(t) == SelectSeq(t, IsNumChar)

----------------------------------------------------------------------------
\* Cells of a DataFrame

NaN == [k |-> "nan", s |-> <<>>, n |-> 0]
NaT == [k |-> "nat", s |-> <<>>, n |-> 0]
None == [k |-> "none", s |-> <<>>, n |-> 0]
Str(t) == [k |-> "str", s |-> t, n |-> 0]
\* a Timestamp, n = year * 10000 + month * 100 + day
Ts(n) == [k |-> "ts", s |-> <<>>, n |-> n]
\* a float64, n in units of 10^-FracDigits
Num(n) == [k |-> "num", s |-> <<>>, n |-> n]

\* pd.isna
IsNA(c) == c.k \in {"nan", "nat", "none"}

\* Series.fillna(value)
FillNA(c, value) == IF IsNA(c) THEN Str(value) ELSE c

----------------------------------------------------------------------------
\* Amount -> numeric (lines 16-22)

\* Series.astype(str) of an Amount cell
AsTypeStr(c) == IF c.k = "str" THEN c.s ELSE <<"n", "a", "n">>

\* The scanner of pd.to_numeric on a text of digits, "." and "-":
\* an optional leading "-", digits, at most one ".", digits, end of text;
\* at least one digit.  st is [i, neg, acc, frac, seenDot, digits].
RECURSIVE ScanNumber(_, _)
ScanNumber(t, st) ==
  IF st.i > Len(t)
  THEN IF st.digits = 0 THEN NaN
       ELSE Num((IF st.neg THEN -1 ELSE 1) * st.acc * Pow10(FracDigits - st.frac))
  ELSE LET c == t[st.i] IN
       IF c = "-"
       THEN IF st.i = 1 THEN ScanNumber(t, [st EXCEPT !.i = 2, !.neg = TRUE]) ELSE NaN
       ELSE IF c = "."
       THEN IF st.seenDot THEN NaN
            ELSE ScanNumber(t, [st EXCEPT !.i = @ + 1, !.seenDot = TRUE])
       ELSE IF IsDigit(c)
       THEN ScanNumber(t, [st EXCEPT !.i = @ + 1,
                                     !.acc = 10 * @ + DigitVal(c),
                                     !.digits = @ + 1,
                                     !.frac = IF st.seenDot THEN @ + 1 ELSE @])
       ELSE NaN

\* pd.to_numeric(text, errors="coerce")
ToNumeric(t) ==
  ScanNumber(t, [i |-> 1, neg |-> FALSE, acc |-> 0, frac |-> 0,
                 seenDot |-> FALSE, digits |-> 0])

\* df["Amount_numeric"] of one Amount cell
AmountNumeric(c) ==
  LET parsed == ToNumeric(RemoveNonNumeric(RemoveLiteral(AsTypeStr(c), <<"C", "H", "F">>)))
  IN  IF IsNA(parsed) THEN Num(0) ELSE parsed

----------------------------------------------------------------------------
\* Date -> datetime, Month (lines 13, 25)

IsLeap(y) == (y % 4 = 0 /\ y % 100 # 0) \/ y % 400 = 0

DaysInMonth(y, m) ==
  IF m = 2 THEN (IF IsLeap(y) THEN 29 ELSE 28)
  ELSE IF m \in {4, 6, 9, 11} THEN 30 ELSE 31

\* int() of a text of digits
RECURSIVE DigitsValue(_)
DigitsValue(t) ==
  IF t = <<>> THEN 0 ELSE 10 * DigitsValue(SubSeq(t, 1, Len(t) - 1)) + DigitVal(t[Len(t)])

AllDigits(t) == \A i \in 1..Len(t) : IsDigit(t[i])

\* the parse of "YYYY-MM-DD"; NaT for every other text
ParseIsoDate(t) ==
  IF /\ Len(t) = 10
     /\ t[5] = "-" /\ t[8] = "-"
     /\ AllDigits(SubSeq(t, 1, 4)) /\ AllDigits(SubSeq(t, 6, 7)) /\ AllDigits(SubSeq(t, 9, 10))
  THEN LET y == DigitsValue(SubSeq(t, 1, 4))
           m == DigitsValue(SubSeq(t, 6, 7))
           d == DigitsValue(SubSeq(t, 9, 10))
       IN  IF m >= 1 /\ m <= 12 /\ d >= 1 /\ d <= DaysInMonth(y, m)
           THEN Ts(y * 10000 + m * 100 + d)
           ELSE NaT
  ELSE NaT

\* Variant: only texts are parsed; a value that is a Timestamp already is coerced to NaT.
ToDatetimeTextOnly(c) == IF c.k = "str" THEN ParseIsoDate(c.s) ELSE NaT

\* pd.to_datetime(cell, errors="coerce")
ToDatetime(c) ==
  IF c.k = "ts" THEN c
  ELSE IF c.k = "str" THEN ParseIsoDate(c.s)
  ELSE NaT

\* the decimal digits of n, zero-padded to width w
RECURSIVE ZeroPad(_, _)
ZeroPad(n, w) == IF w = 0 THEN <<>> ELSE ZeroPad(n \div 10, w - 1) \o <<DigitChar(n % 10)>>

\* Series.dt.strftime("%Y-%m"): NaN for NaT
StrftimeYm(c) ==
  IF c.k = "ts"
  THEN Str(ZeroPad(c.n \div 10000, 4) \o <<"-">> \o ZeroPad((c.n \div 100) % 100, 2))
  ELSE NaN

\* Timestamp -> str, "YYYY-MM-DD" (line 106)
DateAsStr(c) ==
  IF c.k = "ts"
  THEN Str(ZeroPad(c.n \div 10000, 4) \o <<"-">> \o ZeroPad((c.n \div 100) % 100, 2)
           \o <<"-">> \o ZeroPad(c.n % 100, 2))
  ELSE Str(<<"N", "a", "T">>)

----------------------------------------------------------------------------
\* DataFrames: [cols |-> the column names, rows |-> the rows in order], a row
\* being [idx |-> its index label, c |-> its cell in every column].

UnnamedColumns == {"Unnamed: 0"}

\* col.startswith("Unnamed")
StartsWithUnnamed(col) == col \in UnnamedColumns

\* df.drop(columns=[...], errors="ignore")
DropColumns(d, drop) ==
  [cols |-> d.cols \ drop,
   rows |-> [i \in 1..Len(d.rows) |->
               [idx |-> d.rows[i].idx, c |-> [col \in d.cols \ drop |-> d.rows[i].c[col]]]]]

\* df[name] = F(row), row by row
SetColumn(d, name, F(_)) ==
  [cols |-> d.cols \cup {name},
   rows |-> [i \in 1..Len(d.rows) |->
               [idx |-> d.rows[i].idx,
                c |-> [col \in d.cols \cup {name} |->
                         IF col = name THEN F(d.rows[i]) ELSE d.rows[i].c[col]]]]]

\* the rows Keep holds of, in order (a boolean mask applied to a frame)
SelectRows(rows, Keep(_)) ==
  LET F[i \in 0..Len(rows)] ==
        IF i = 0 THEN <<>>
        ELSE IF Keep(rows[i]) THEN Append(F[i - 1], rows[i]) ELSE F[i - 1]
  IN  F[Len(rows)]

\* Variant: dropna() with no subset, which drops a row with a missing cell in any column.
DropNaAny(d, subset) ==
  LET Keep(r) == \A col \in d.cols : ~IsNA(r.c[col])
  IN  [cols |-> d.cols, rows |-> SelectRows(d.rows, Keep)]

\* Variant: the result of dropna is not kept, so no row is dropped.
DropNaKeepAll(d, subset) == d

\* df.dropna(subset=[...])
DropNa(d, subset) ==
  LET Keep(r) == \A col \in subset : ~IsNA(r.c[col])
  IN  [cols |-> d.cols, rows |-> SelectRows(d.rows, Keep)]

Uncategorized == <<"U", "n", "c", "a", "t", "e", "g", "o", "r", "i", "z", "e", "d">>
Unknown == <<"U", "n", "k", "n", "o", "w", "n">>

EmptyFrame == [cols |-> {}, rows |-> <<>>]

KeyError(col) == [err |-> col, df |-> EmptyFrame]

\* load_and_clean(df): [err |-> "" or the column of the KeyError, df |-> the result]
LoadAndClean(d) ==
  LET d0 == DropColumns(d, {col \in d.cols : StartsWithUnnamed(col)})
      DateOf(r) == ToDatetime(r.c["Date"])
      d1 == SetColumn(d0, "Date", DateOf)
      NumericOf(r) == AmountNumeric(r.c["Amount"])
      d2 == SetColumn(d1, "Amount_numeric", NumericOf)
      MonthOf(r) == StrftimeYm(r.c["Date"])
      d3 == SetColumn(d2, "Month", MonthOf)
      CategoryOf(r) == FillNA(r.c["Category"], Uncategorized)
      d4 == SetColumn(d3, "Category", CategoryOf)
      DirectionOf(r) == FillNA(r.c["Received / paid"], Unknown)
      d5 == SetColumn(d4, "Received / paid", DirectionOf)
      WhereOf(r) == FillNA(r.c["If shopped, where"], <<>>)
      d6 == SetColumn(d5, "If shopped, where", WhereOf)
  IN  IF "Date" \notin d0.cols THEN KeyError("Date")
      ELSE IF "Amount" \notin d1.cols THEN KeyError("Amount")
      ELSE IF "Category" \notin d3.cols THEN KeyError("Category")
      ELSE IF "Received / paid" \notin d4.cols THEN KeyError("Received / paid")
      ELSE IF "If shopped, where" \notin d5.cols THEN KeyError("If shopped, where")
      ELSE [err |-> "", df |-> DropNa(d6, {"Date"})]

----------------------------------------------------------------------------
\* The script after load_and_clean (lines 45-106)

\* the values of a sequence, each once, in order of first appearance
RECURSIVE Unique(_)
Unique(q) ==
  IF q = <<>> THEN <<>>
  ELSE LET u == Unique(SubSeq(q, 1, Len(q) - 1))
           x == q[Len(q)]
       IN  IF \E i \in 1..Len(u) : u[i] = x THEN u ELSE Append(u, x)

\* x put into the ordered sequence q after every element not above it (stable)
Insert(x, q, Less(_, _)) ==
  LET above == {j \in 1..Len(q) : Less(x, q[j])}
      at == IF above = {} THEN Len(q) + 1 ELSE CHOOSE j \in above : \A k \in above : j <= k
  IN  SubSeq(q, 1, at - 1) \o <<x>> \o SubSeq(q, at, Len(q))

\* a stable sort of q by Less
Sort(q, Less(_, _)) ==
  LET F[i \in 0..Len(q)] == IF i = 0 THEN <<>> ELSE Insert(q[i], F[i - 1], Less)
  IN  F[Len(q)]

TextGreater(a, b) == TextLess(b, a)

\* Variant: sorted() without reverse=True.
MonthListAscending(d) == Sort(Unique([i \in 1..Len(d.rows) |-> d.rows[i].c["Month"].s]), TextLess)

\* sorted(df["Month"].unique(), reverse=True)
MonthList(d) == Sort(Unique([i \in 1..Len(d.rows) |-> d.rows[i].c["Month"].s]), TextGreater)

\* st.sidebar.selectbox("Month", month_list): the option picked, the first one
\* before any pick, None without options
Selectbox(options, pick) ==
  IF options = <<>> THEN None
  ELSE IF \E i \in 1..Len(options) : Str(options[i]) = pick THEN pick
  ELSE Str(options[1])

\* df[df["Month"] == selected_month]
MonthDf(d, selected) ==
  LET Keep(r) == r.c["Month"] = selected
  IN  [cols |-> d.cols, rows |-> SelectRows(d.rows, Keep)]

\* Series.sum() of Amount_numeric
RECURSIVE SumAmount(_)
SumAmount(rows) ==
  IF rows = <<>> THEN 0 ELSE Head(rows).c["Amount_numeric"].n + SumAmount(Tail(rows))

\* Series.str.contains(pat, case=False, na=False)
StrContains(c, pat) == IF c.k = "str" THEN ContainsNoCase(c.s, pat) ELSE FALSE

\* Variant: case-sensitive matching.
DirectionTotalCaseSensitive(d, pat) ==
  LET Keep(r) == r.c["Received / paid"].k = "str"
                 /\ \E i \in 1..(Len(r.c["Received / paid"].s) - Len(pat) + 1) :
                      SubSeq(r.c["Received / paid"].s, i, i + Len(pat) - 1) = pat
  IN  SumAmount(SelectRows(d.rows, Keep))

\* Variant: the total shown as an outflow, with the sign turned.
DirectionTotalNegated(d, pat) ==
  LET Keep(r) == StrContains(r.c["Received / paid"], pat)
  IN  0 - SumAmount(SelectRows(d.rows, Keep))

\* month_df[month_df["Received / paid"].str.contains(pat, case=False, na=False)]["Amount_numeric"].sum()
DirectionTotal(d, pat) ==
  LET Keep(r) == StrContains(r.c["Received / paid"], pat)
  IN  SumAmount(SelectRows(d.rows, Keep))

\* lexicographic order of key tuples
RECURSIVE KeyLess(_, _)
KeyLess(a, b) ==
  IF a = <<>> \/ b = <<>> THEN FALSE
  ELSE IF Head(a) # Head(b) THEN TextLess(Head(a), Head(b))
  ELSE KeyLess(Tail(a), Tail(b))

KeyOf(r, by) == [j \in 1..Len(by) |-> r.c[by[j]].s]

HasKey(r, by) == \A j \in 1..Len(by) : ~IsNA(r.c[by[j]])

\* Variant: every row is a group of its own (no merging of equal keys).
GroupBySumPerRow(d, by) ==
  [i \in 1..Len(d.rows) |-> [key |-> KeyOf(d.rows[i], by), sum |-> d.rows[i].c["Amount_numeric"].n]]

\* df.groupby(by, as_index=False)["Amount_numeric"].sum(): one row per key in
\* key order; rows with a missing key are left out (dropna=True)
GroupBySum(d, by) ==
  LET Keyed(r) == HasKey(r, by)
      rows == SelectRows(d.rows, Keyed)
      keys == Sort(Unique([i \in 1..Len(rows) |-> KeyOf(rows[i], by)]), KeyLess)
  IN  [g \in 1..Len(keys) |->
         LET InGroup(r) == KeyOf(r, by) = keys[g]
         IN  [key |-> keys[g], sum |-> SumAmount(SelectRows(rows, InGroup))]]

\* trend.sort_values("Month")
SortByMonth(t) ==
  LET Less(a, b) == TextLess(a.key[1], b.key[1])
  IN  Sort(t, Less)

\* Variant: the trend computed from the selected month's rows.
TrendOfMonth(d, m) == SortByMonth(GroupBySum(m, <<"Month", "Received / paid">>))

\* lines 88-89; m is the selected month's frame, which the trend does not read
Trend(d, m) == SortByMonth(GroupBySum(d, <<"Month", "Received / paid">>))

DisplayColumns == {"Date", "Category", "Amount", "Received / paid", "If shopped, where"}

\* month_df[cols] with Date as text (lines 104-106)
MonthDfDisplay(m) ==
  LET DateText(r) == DateAsStr(r.c["Date"])
  IN  SetColumn(DropColumns(m, m.cols \ DisplayColumns), "Date", DateText)

----------------------------------------------------------------------------
\* The files a user may upload, as pd.read_csv returns them (line 42)

Row(d, a, c, r, w) ==
  ("Date" :> d) @@ ("Amount" :> a) @@ ("Category" :> c) @@ ("Received / paid" :> r)
    @@ ("If shopped, where" :> w) @@ ("Unnamed: 0" :> Str(<<"0">>))

\* two dates that parse, one that does not (30 February)
DateCells == {Str(<<"2", "0", "2", "3", "-", "1", "2", "-", "3", "1">>), Str(<<"2", "0", "2", "4", "-", "0", "1", "-", "1", "5">>), Str(<<"2", "0", "2", "4", "-", "0", "2", "-", "3", "0">>)}

DirectionCells == {Str(<<"P", "a", "i", "d">>), Str(<<"R", "e", "c", "e", "i", "v", "e", "d">>), Str(<<"R", "E", "C", "E", "I", "V", "E", "D", "/", "P", "A", "I", "D">>), NaN}

\* complete transactions of every date and direction
TransactionRows ==
  {Row(d, Str(<<"C", "H", "F", " ", "1", "0", "0">>), Str(<<"F", "o", "o", "d">>), r, Str(<<"C", "o", "o", "p">>)) : d \in DateCells, r \in DirectionCells}

\* transactions with a negative amount
RefundRows ==
  {Row(d, Str(<<"-", "5">>), Str(<<"F", "o", "o", "d">>), r, Str(<<"C", "o", "o", "p">>)) :
     d \in {Str(<<"2", "0", "2", "3", "-", "1", "2", "-", "3", "1">>), Str(<<"2", "0", "2", "4", "-", "0", "1", "-", "1", "5">>)}, r \in {Str(<<"P", "a", "i", "d">>), Str(<<"R", "e", "c", "e", "i", "v", "e", "d">>)}}

\* rows with missing or malformed cells
DefectiveRows ==
  {Row(d, a, NaN, Str(<<"P", "a", "i", "d">>), NaN) :
     d \in {Str(<<"2", "0", "2", "4", "-", "0", "1", "-", "1", "5">>), NaN}, a \in {Str(<<"g", "a", "r", "b", "a", "g", "e">>), Str(<<"1", ".", "5", "0">>), NaN}}

FullRows == TransactionRows \cup RefundRows \cup DefectiveRows

RequiredColumns == {"Date", "Amount", "Category", "Received / paid", "If shopped, where"}

\* every column present, one of them absent, or an index column besides
ColumnSets ==
  {RequiredColumns, RequiredColumns \cup UnnamedColumns}
    \cup {RequiredColumns \ {col} : col \in RequiredColumns}

RowsOver(cols) == {[col \in cols |-> f[col]] : f \in FullRows}

\* the frame of the data rows q, indexed from 0
Frame(cols, q) == [cols |-> cols, rows |-> [i \in 1..Len(q) |-> [idx |-> i - 1, c |-> q[i]]]]

\* all texts of at most n characters over the set A
RECURSIVE TextsUpTo(_, _)
TextsUpTo(A, n) ==
  IF n = 0 THEN {<<>>}
  ELSE LET shorter == TextsUpTo(A, n - 1)
       IN  shorter \cup {Append(t, c) : t \in shorter, c \in A}

AmountAlphabet == {"1", "5", ".", "-", "C", "H", "F", "'"}

\* of the specification's examples, and texts with several "." or a late "-"
SampleAmounts ==
  {<<"C", "H", "F", " ", "1", "'", "2", "3", "4", ".", "5", "6">>, <<"1", "2", "3", "4", ".", "5", "6", " ", "C", "H", "F">>, <<"g", "a", "r", "b", "a", "g", "e">>, <<"1", ".", "2", ".", "3">>, <<"1", "2", "-">>, <<"C", "H", "F", " ", "-", "0", ".", "5", "0">>}

ProbeCells == {Str(t) : t \in TextsUpTo(AmountAlphabet, MaxLen) \cup SampleAmounts} \cup {NaN}

----------------------------------------------------------------------------
\* State

VARIABLES
  uploaded_file,     \* the frame read from the uploaded CSV, None without a file
  run,               \* how the last run of the script ended: "stopped" (st.stop()),
                     \* "KeyError" (load_and_clean raised) or "rendered"
  error,             \* the column the KeyError names
  df,
  month_list,
  selected_month,
  month_df,
  paid_total,
  received_total,
  net,
  cat_sum,
  cat_type,
  trend,
  month_df_display,
  amount,            \* an Amount cell on its own, and
  amount_numeric     \* its Amount_numeric (None before the conversion)

vars ==
  <<uploaded_file, run, error, df, month_list, selected_month, month_df, paid_total,
    received_total, net, cat_sum, cat_type, trend, month_df_display, amount, amount_numeric>>

\* nothing below the point where the script stopped is defined
Undefined(how, col) ==
  [run |-> how, error |-> col, df |-> EmptyFrame, month_list |-> <<>>,
   selected_month |-> None, month_df |-> EmptyFrame, paid_total |-> 0,
   received_total |-> 0, net |-> 0, cat_sum |-> <<>>, cat_type |-> <<>>,
   trend |-> <<>>, month_df_display |-> EmptyFrame]

\* one run of the script on an uploaded file, pick being the option the
\* Month widget holds (lines 42-106)
RunScript(file, pick) ==
  LET res == LoadAndClean(file)
      d == res.df
      months == MonthList(d)
      selected == Selectbox(months, pick)
      m == MonthDf(d, selected)
      paid == DirectionTotal(m, <<"P", "a", "i", "d">>)
      received == DirectionTotal(m, <<"R", "e", "c", "e", "i", "v", "e", "d">>)
  IN  IF res.err # "" THEN Undefined("KeyError", res.err)
      ELSE [run |-> "rendered", error |-> "", df |-> d, month_list |-> months,
            selected_month |-> selected, month_df |-> m, paid_total |-> paid,
            received_total |-> received, net |-> received - paid,
            cat_sum |-> GroupBySum(m, <<"Category">>),
            cat_type |-> GroupBySum(m, <<"Category", "Received / paid">>),
            trend |-> Trend(d, m),
            month_df_display |-> MonthDfDisplay(m)]

\* the script's variables are as v
Shown(v) ==
  /\ run = v.run
  /\ error = v.error
  /\ df = v.df
  /\ month_list = v.month_list
  /\ selected_month = v.selected_month
  /\ month_df = v.month_df
  /\ paid_total = v.paid_total
  /\ received_total = v.received_total
  /\ net = v.net
  /\ cat_sum = v.cat_sum
  /\ cat_type = v.cat_type
  /\ trend = v.trend
  /\ month_df_display = v.month_df_display

\* a run of the script leaves its variables as v
Show(v) ==
  /\ run' = v.run
  /\ error' = v.error
  /\ df' = v.df
  /\ month_list' = v.month_list
  /\ selected_month' = v.selected_month
  /\ month_df' = v.month_df
  /\ paid_total' = v.paid_total
  /\ received_total' = v.received_total
  /\ net' = v.net
  /\ cat_sum' = v.cat_sum
  /\ cat_type' = v.cat_type
  /\ trend' = v.trend
  /\ month_df_display' = v.month_df_display

Init ==
  /\ uploaded_file = None
  /\ Shown(Undefined("stopped", ""))
  /\ amount = NaN
  /\ amount_numeric = None

\* the user uploads a CSV file; the script reruns with a fresh Month widget
Upload ==
  /\ uploaded_file = None
  /\ \E cols \in ColumnSets, n \in 0..MaxRows :
       \E q \in [1..n -> RowsOver(cols)] :
          /\ uploaded_file' = Frame(cols, q)
          /\ Show(RunScript(Frame(cols, q), None))
  /\ UNCHANGED <<amount, amount_numeric>>

\* the user picks another month; the script reruns on the same file
SelectMonth ==
  /\ run = "rendered"
  /\ \E i \in 1..Len(month_list) :
       /\ Str(month_list[i]) # selected_month
       /\ Show(RunScript(uploaded_file, Str(month_list[i])))
  /\ UNCHANGED <<uploaded_file, amount, amount_numeric>>

\* the user removes the file; the script stops at line 40
RemoveFile ==
  /\ uploaded_file # None
  /\ uploaded_file' = None
  /\ Show(Undefined("stopped", ""))
  /\ UNCHANGED <<amount, amount_numeric>>

Next == Upload \/ SelectMonth \/ RemoveFile

Spec == Init /\ [][Next]_vars

\* The Amount conversion on its own, over every short text
InitAmount ==
  /\ uploaded_file = None
  /\ Shown(Undefined("stopped", ""))
  /\ amount \in ProbeCells
  /\ amount_numeric = None

ConvertAmount ==
  /\ amount_numeric = None
  /\ amount_numeric' = AmountNumeric(amount)
  /\ UNCHANGED <<uploaded_file, run, error, df, month_list, selected_month, month_df,
                 paid_total, received_total, net, cat_sum, cat_type, trend,
                 month_df_display, amount>>

NextAmount == ConvertAmount

SpecAmount == InitAmount /\ [][NextAmount]_vars

----------------------------------------------------------------------------
\* Properties

Rendered == run = "rendered"

Positions(d) == 1..Len(d.rows)

Labels(d) == {d.rows[j].idx : j \in Positions(d)}

\* the sum of Amount_numeric over the rows of d at the positions S
RECURSIVE AmountOver(_, _)
AmountOver(d, S) ==
  IF S = {} THEN 0
  ELSE LET j == CHOOSE j \in S : TRUE
       IN  d.rows[j].c["Amount_numeric"].n + AmountOver(d, S \ {j})

\* the records of the selected month
InMonth == {j \in Positions(df) : df.rows[j].c["Month"] = selected_month}

RECURSIVE SumOfGroups(_)
SumOfGroups(g) == IF g = <<>> THEN 0 ELSE Head(g).sum + SumOfGroups(Tail(g))

Keys(g) == {g[i].key : i \in 1..Len(g)}

\* C1: the output of load_and_clean holds exactly the input rows whose Date
\* parses, each once, whatever their other cells are.
C1_OnlyInvalidDatesDropped ==
  Rendered =>
    LET raw == uploaded_file
        parsed == {i \in Positions(raw) : ToDatetime(raw.rows[i].c["Date"]).k = "ts"}
    IN  /\ Labels(df) = {raw.rows[i].idx : i \in parsed}
        /\ Len(df.rows) = Cardinality(parsed)
        /\ Len(df.rows) <= Len(raw.rows)

\* a row with an invalid date was dropped and a row without amount, category
\* and location was kept
C1_Witness ==
  /\ Rendered
  /\ Len(df.rows) = 1 /\ Len(uploaded_file.rows) = 2
  /\ \E i \in Positions(uploaded_file) :
       /\ uploaded_file.rows[i].idx \in Labels(df)
       /\ uploaded_file.rows[i].c["Amount"] = NaN
       /\ uploaded_file.rows[i].c["Category"] = NaN
       /\ uploaded_file.rows[i].c["If shopped, where"] = NaN

\* the numeric characters of a text, in order
NumericPart(t) ==
  LET F[i \in 0..Len(t)] ==
        IF i = 0 THEN <<>>
        ELSE IF t[i] \in {"0", "1", "2", "3", "4", "5", "6", "7", "8", "9", ".", "-"}
             THEN Append(F[i - 1], t[i]) ELSE F[i - 1]
  IN  F[Len(t)]

Count(t, ch) == Cardinality({i \in 1..Len(t) : t[i] = ch})

\* a decimal: digits with at most one ".", after at most one leading "-"
IsDecimal(r) ==
  /\ Count(r, ".") <= 1
  /\ \A i \in 1..Len(r) : r[i] = "-" => i = 1
  /\ \E i \in 1..Len(r) : r[i] \notin {".", "-"}

\* the value of a decimal in units of 10^-FracDigits
DecimalValue(r) ==
  LET dot == IF Count(r, ".") = 0 THEN Len(r) + 1 ELSE CHOOSE i \in 1..Len(r) : r[i] = "."
      Place(i) == IF i < dot THEN Pow10(FracDigits + dot - 1 - i) ELSE Pow10(FracDigits + dot - i)
      F[i \in 0..Len(r)] ==
        IF i = 0 THEN 0
        ELSE IF r[i] \in {".", "-"} THEN F[i - 1]
        ELSE F[i - 1] + DigitVal(r[i]) * Place(i)
  IN  IF r[1] = "-" THEN 0 - F[Len(r)] ELSE F[Len(r)]

Converted == amount_numeric # None

\* C2: Amount_numeric is always a number: the decimal left when everything but
\* digits, "." and "-" is removed from the Amount text, and 0 when what is left
\* is no decimal; "CHF 1'234.56" and "1234.56 CHF" give 1234.56, "garbage" 0.
C2_AmountIsTheDecimalOrZero ==
  Converted =>
    LET r == IF amount.k = "str" THEN NumericPart(amount.s) ELSE <<>>
    IN  /\ amount_numeric.k = "num"
        /\ amount_numeric.n = IF IsDecimal(r) THEN DecimalValue(r) ELSE 0
        /\ amount \in {Str(<<"C", "H", "F", " ", "1", "'", "2", "3", "4", ".", "5", "6">>), Str(<<"1", "2", "3", "4", ".", "5", "6", " ", "C", "H", "F">>)}
             => amount_numeric.n = 123456 * Pow10(FracDigits - 2)
        /\ amount \in {Str(<<"g", "a", "r", "b", "a", "g", "e">>), Str(<<"1", ".", "2", ".", "3">>), Str(<<"1", "2", "-">>), Str(<<>>), Str(<<"-">>), NaN}
             => amount_numeric.n = 0

\* the example with a currency prefix, a thousands separator and two decimals
C2_Witness ==
  /\ Converted
  /\ amount = Str(<<"C", "H", "F", " ", "1", "'", "2", "3", "4", ".", "5", "6">>)
  /\ amount_numeric = Num(123456 * Pow10(FracDigits - 2))

Uploaded == uploaded_file # None

\* every record has a text in Category, direction and location: the cell of
\* the file, or the default where the file has none
DefaultsApplied ==
  LET raw == uploaded_file
      Cell(i, col) == IF col \in raw.cols THEN raw.rows[i].c[col] ELSE NaN
      Filled(i, col, default) == IF Cell(i, col) = NaN THEN Str(default) ELSE Cell(i, col)
  IN  \A j \in Positions(df) : \E i \in Positions(raw) :
        /\ raw.rows[i].idx = df.rows[j].idx
        /\ df.rows[j].c["Category"] = Filled(i, "Category", Uncategorized)
        /\ df.rows[j].c["Received / paid"] = Filled(i, "Received / paid", Unknown)
        /\ df.rows[j].c["If shopped, where"] = Filled(i, "If shopped, where", <<>>)

\* C3: load_and_clean fails if and only if the Date or the Amount column is
\* absent; without one of the optional columns it succeeds and every record
\* has the default in that field.
C3_FailsOnlyWithoutDateOrAmount ==
  Uploaded =>
    /\ run = "KeyError" <=> ("Date" \notin uploaded_file.cols \/ "Amount" \notin uploaded_file.cols)
    /\ Rendered => DefaultsApplied

\* the direction text contains pat, whatever the case of its letters
Mentions(cell, pat) ==
  /\ cell.k = "str"
  /\ \E i \in 0..(Len(cell.s) - Len(pat)) :
       \A j \in 1..Len(pat) : Lower(cell.s[i + j]) = pat[j]

PaidRows == {j \in InMonth : Mentions(df.rows[j].c["Received / paid"], <<"p", "a", "i", "d">>)}

ReceivedRows ==
  {j \in InMonth :
     Mentions(df.rows[j].c["Received / paid"], <<"r", "e", "c", "e", "i", "v", "e", "d">>)}

\* C4: paid_total and received_total are the sums of amount over the month's
\* records whose direction contains "paid", respectively "received", in any
\* case; net is their difference; a record with both counts in both, a record
\* with neither counts in neither and is still in cat_sum and the detail rows.
C4_TotalsBySubstring ==
  Rendered =>
    /\ paid_total = AmountOver(df, PaidRows)
    /\ received_total = AmountOver(df, ReceivedRows)
    /\ net = received_total - paid_total
    /\ \A j \in InMonth :
         /\ <<df.rows[j].c["Category"].s>> \in Keys(cat_sum)
         /\ df.rows[j].idx \in Labels(month_df_display)

\* a month with a record of both directions and a record of neither
C4_Witness ==
  /\ Rendered
  /\ PaidRows \cap ReceivedRows # {}
  /\ InMonth \ (PaidRows \cup ReceivedRows) # {}
  /\ paid_total > 0

\* C5 as stated: paid_total and received_total are never negative.
C5_TotalsNonNegative == Rendered => paid_total >= 0 /\ received_total >= 0

\* C5, amended: paid_total and received_total are not negative if no record
\* of the selected month has a negative amount.
C5_TotalsNonNegativeWithoutNegativeAmounts ==
  (Rendered /\ \A j \in InMonth : df.rows[j].c["Amount_numeric"].n >= 0)
    => paid_total >= 0 /\ received_total >= 0

C5_Witness ==
  /\ Rendered
  /\ \A j \in InMonth : df.rows[j].c["Amount_numeric"].n >= 0
  /\ paid_total > 0
  /\ received_total > 0

\* C6: cat_sum has one group for each category among the month's records, no
\* group twice, each with the sum of its records, and the groups' sums add up
\* to the sum of amount over all the month's records.
C6_CategoryBreakdown ==
  Rendered =>
    /\ Keys(cat_sum) = {<<df.rows[j].c["Category"].s>> : j \in InMonth}
    /\ Len(cat_sum) = Cardinality(Keys(cat_sum))
    /\ \A g \in 1..Len(cat_sum) :
         cat_sum[g].sum =
           AmountOver(df, {j \in InMonth : <<df.rows[j].c["Category"].s>> = cat_sum[g].key})
    /\ SumOfGroups(cat_sum) = AmountOver(df, InMonth)

\* the defaulted category is a group, with the sum zero
C6_Witness ==
  /\ Rendered
  /\ Len(cat_sum) = 2
  /\ \E g \in 1..2 : cat_sum[g].key = <<Uncategorized>> /\ cat_sum[g].sum = 0

PairOf(j) == <<df.rows[j].c["Month"].s, df.rows[j].c["Received / paid"].s>>

TrendRows ==
  /\ Keys(trend) = {PairOf(j) : j \in Positions(df)}
  /\ Len(trend) = Cardinality(Keys(trend))
  /\ \A g \in 1..Len(trend) :
       trend[g].sum = AmountOver(df, {j \in Positions(df) : PairOf(j) = trend[g].key})
  /\ \A g, h \in 1..Len(trend) : g < h => ~TextLess(trend[h].key[1], trend[g].key[1])

\* C7: trend has one row for each (month, direction) pair of the whole record
\* set, with the sum of the pair's records, in ascending order of month, and
\* is the same whichever month is selected.
C7_TrendOverAllMonths ==
  /\ [](Rendered => TrendRows)
  /\ [][(Rendered /\ uploaded_file' = uploaded_file /\ selected_month' # selected_month)
          => trend' = trend]_vars

\* the older month is selected and the trend has both months
C7_Witness ==
  /\ Rendered
  /\ Len(month_list) = 2
  /\ selected_month = Str(month_list[2])
  /\ Len(trend) = 2
  /\ TextLess(trend[1].key[1], trend[2].key[1])

MonthListRows ==
  /\ {month_list[i] : i \in 1..Len(month_list)} = {df.rows[j].c["Month"].s : j \in Positions(df)}
  /\ \A i, k \in 1..Len(month_list) : i < k => TextLess(month_list[k], month_list[i])

DetailRows ==
  /\ Labels(month_df) = {df.rows[j].idx : j \in InMonth}
  /\ Len(month_df.rows) = Cardinality(InMonth)
  /\ Labels(month_df_display) = Labels(month_df)

\* C8 as stated: month_list holds each month of the records once, in strictly
\* descending order; the selected month is always one of them; the detail
\* rows are the records of that month.
C8_SelectedMonthInList ==
  Rendered =>
    /\ MonthListRows
    /\ \E i \in 1..Len(month_list) : selected_month = Str(month_list[i])
    /\ DetailRows

\* C8, amended: ... the selected month is one of them unless the list is
\* empty, when it is None ...
C8_SelectedMonthInListUnlessEmpty ==
  Rendered =>
    /\ MonthListRows
    /\ IF month_list = <<>> THEN selected_month = None
       ELSE \E i \in 1..Len(month_list) : selected_month = Str(month_list[i])
    /\ DetailRows

\* two months, the older one selected
C8_Witness ==
  /\ Rendered
  /\ Len(month_list) = 2
  /\ selected_month = Str(month_list[2])
  /\ Len(month_df.rows) = 1

NoMonthSelected == \A i \in 1..Len(month_list) : selected_month # Str(month_list[i])

\* C9: with no record, or with a selected month that is not in month_list,
\* the script does not fail; the totals are 0 and cat_sum, cat_type and the
\* detail rows are empty.
C9_EmptyViews ==
  /\ (Uploaded /\ RequiredColumns \subseteq uploaded_file.cols
        /\ \A i \in Positions(uploaded_file) :
              ToDatetime(uploaded_file.rows[i].c["Date"]).k # "ts")
       => Rendered /\ df.rows = <<>>
  /\ (Rendered /\ (df.rows = <<>> \/ NoMonthSelected))
       => /\ paid_total = 0 /\ received_total = 0 /\ net = 0
          /\ cat_sum = <<>> /\ cat_type = <<>>
          /\ month_df.rows = <<>> /\ month_df_display.rows = <<>>

\* every row of the file had an invalid date
C9_Witness ==
  /\ Rendered
  /\ Len(uploaded_file.rows) = MaxRows
  /\ df.rows = <<>>
  /\ selected_month = None

\* C10: load_and_clean applied to its own output returns it unchanged.
C10_Idempotent == Rendered => LoadAndClean(df) = [err |-> "", df |-> df]

\* records with defaults, a coerced amount and a parsed amount
C10_Witness ==
  /\ Rendered
  /\ Len(df.rows) = 2
  /\ \E j \in Positions(df) :
       df.rows[j].c["Category"] = Str(Uncategorized) /\ df.rows[j].c["Amount"] = NaN
  /\ \E j \in Positions(df) : df.rows[j].c["Amount_numeric"].n < 0

====
